---- MODULE Spec2Model ----
(***************************************************************************)
(* A model of colorSortedImageGrid (src/index.js).                         *)
(*                                                                         *)
(* JavaScript strings are sequences of one-character strings, so that      *)
(* toLowerCase, indexOf, substring, padStart and toString are computed     *)
(* character by character.  An absent numeric option is the value          *)
(* `undefined'; an absent object property is UndefinedObj.                 *)
(***************************************************************************)
EXTENDS Integers, Sequences, FiniteSets, TLC

VARIABLES
    pc,                 \* "main" until line 431 calls the entry point, then "eventloop"
    cmdline,            \* argv as yargs parsed it (never written again)
    argv,               \* the global mutable argv object
    dirEntries,         \* what fs.readdirSync(argv.inputDirectory) returns
    files,              \* content of each qualifying directory entry
    imageFilenames,     \* the filtered list of createColorSortedImageGrid
    pending,            \* the Jimp.read calls that have not settled yet
    imageDataArray,     \* processImages' imageDataArray
    processPromise,     \* the promise processImages returns
    gridPromise,        \* the promise createOutputGrid returns
    microtasks,         \* promise reactions queued and not yet run
    sortedImageArray,   \* the sortedImageArray of the .then handler
    written,            \* every <image>.write(path) call, in order
    console,            \* console.log / console.error lines, in order
    hsvCall             \* the last call of hexToHSV: its argument and its result

vars == <<pc, cmdline, argv, dirEntries, files, imageFilenames, pending,
          imageDataArray, processPromise, gridPromise, microtasks,
          sortedImageArray, written, console, hsvCall>>

-----------------------------------------------------------------------------
(* Bounds of the model.                                                    *)

\* Spec: qualifying directory entries, and the largest row / column hint.
MaxFiles == 2
MaxPipelineHint == 1
\* SpecGrid: the largest cell size hint.
MaxPx == 2
\* SpecFilter: directory entries per listing.
MaxListing == 2
\* SpecDims: input images, and the largest row / column hint.
MaxDimImages == 12
MaxHint == 4
\* SpecSort: records sorted.
MaxSortImages == 3
\* SpecGrid: rows, columns, images.
MaxGridDim == 3
MaxGridImages == 10
\* SpecFiles: images written.
MaxOutFiles == 12
\* SpecPx: the files of the directory, the sides of their bitmaps and the
\* pxPerImage hints.
MaxPxFiles == 2
MaxSide == 3
MaxPxHint == 3

-----------------------------------------------------------------------------
(* Program constants.                                                      *)

SORT_ORDERS == {"row-major", "column-major"}

SORT_PARAMETERS == {"filename", "hue", "saturation", "value", "luma"}

VISUALIZATION_MODES == {"normal", "dominant", "4x4"}

\* The value of a numeric option yargs did not find on the command line.
undefined == -1

\* The value of an object property that was never assigned.
UndefinedObj == <<>>

\* argv.outputFilename when the option is absent: undefined and the empty
\* string are both falsy at line 413 and both differ from "table" and "files".
NoOutputFilename == <<>>

\* JavaScript truthiness of a numeric option (undefined and 0 are falsy).
Truthy(n) == n # undefined /\ n # 0

-----------------------------------------------------------------------------
(* Strings.                                                                *)

LowerOf == [A |-> "a", B |-> "b", C |-> "c", D |-> "d", E |-> "e", F |-> "f",
            G |-> "g", H |-> "h", I |-> "i", J |-> "j", K |-> "k", L |-> "l",
            M |-> "m", N |-> "n", O |-> "o", P |-> "p", Q |-> "q", R |-> "r",
            S |-> "s", T |-> "t", U |-> "u", V |-> "v", W |-> "w", X |-> "x",
            Y |-> "y", Z |-> "z"]

\* String.prototype.toLowerCase
ToLowerCase(s) ==
    [i \in 1..Len(s) |-> IF s[i] \in DOMAIN LowerOf THEN LowerOf[s[i]] ELSE s[i]]

\* String.prototype.indexOf: the 0-based position of the first occurrence of
\* pat in s, or -1.
IndexOf(s, pat) ==
    LET hits == {i \in 0..(Len(s) - Len(pat)) :
                    SubSeq(s, i + 1, i + Len(pat)) = pat}
    IN  IF hits = {} THEN -1
        ELSE CHOOSE i \in hits : \A j \in hits : i <= j

DigitChar == <<"0", "1", "2", "3", "4", "5", "6", "7", "8", "9">>

\* Number.prototype.toString() of a non-negative integer.
RECURSIVE NumToString(_)
NumToString(n) ==
    IF n < 10 THEN <<DigitChar[n + 1]>>
    ELSE NumToString(n \div 10) \o <<DigitChar[(n % 10) + 1]>>

\* String.prototype.padStart(targetLength, padChar)
RECURSIVE PadStart(_, _, _)
PadStart(s, targetLength, padChar) ==
    IF Len(s) >= targetLength THEN s
    ELSE PadStart(<<padChar>> \o s, targetLength, padChar)

-----------------------------------------------------------------------------
(* createColorSortedImageGrid, lines 329-347: list, filter, resolve the    *)
(* grid dimensions, start every read.                                      *)

DotJpg == <<".", "j", "p", "g">>
DotPng == <<".", "p", "n", "g">>

\* The filter predicate of line 333.
KeepEntry(current) ==
    \/ IndexOf(ToLowerCase(current), DotJpg) > -1
    \/ IndexOf(ToLowerCase(current), DotPng) > -1

FilterEntries(entries) == SelectSeq(entries, KeepEntry)

\* Math.floor in place of Math.ceil.
FloorDiv(a, b) == a \div b

\* Math.ceil(a / b) for integers a >= 0, b >= 1 (IEEE division of two small
\* integers is exact whenever the quotient is an integer).
CeilDiv(a, b) == IF a % b = 0 THEN a \div b ELSE (a \div b) + 1

\* Math.ceil(Math.sqrt(n)) for an integer n >= 0 (Math.sqrt is correctly
\* rounded, so a perfect square gives its exact root).
RECURSIVE CeilSqrtFrom(_, _)
CeilSqrtFrom(n, k) == IF k * k >= n THEN k ELSE CeilSqrtFrom(n, k + 1)
\* Math.floor in place of Math.ceil.
FloorSqrt(n) == CHOOSE k \in 0..n : k * k <= n /\ (k + 1) * (k + 1) > n

CeilSqrt(n) == CeilSqrtFrom(n, 0)

\* setNumRowsAndNumCols: argv after the call.
setNumRowsAndNumCols(a, numInputImages) ==
    IF ~Truthy(a.numRows) \/ ~Truthy(a.numColumns)
    THEN IF Truthy(a.numRows)
         THEN [a EXCEPT !.numColumns = CeilDiv(numInputImages, a.numRows)]
         ELSE IF Truthy(a.numColumns)
         THEN [a EXCEPT !.numRows = CeilDiv(numInputImages, a.numColumns)]
         ELSE [a EXCEPT !.numRows = CeilSqrt(numInputImages),
                        !.numColumns = CeilSqrt(numInputImages)]
    ELSE a

NoPromise == [state |-> "none", value |-> <<>>]
PendingPromise == [state |-> "pending", value |-> <<>>]

\* One console line: the template of the message and the value it interpolates.
Log(stream, text, arg) == [stream |-> stream, text |-> text, arg |-> arg]

\* The early return of lines 336-339.
NoInputImages(names) == Len(names) = 0

Start ==
    /\ pc = "main"
    /\ pc' = "eventloop"
    /\ LET names == FilterEntries(dirEntries)
       IN  /\ imageFilenames' = names
           /\ IF NoInputImages(names)
              THEN /\ console' = <<Log("error", "There are no .jpg or .png images inside <inputDirectory>! Quitting...", <<>>)>>
                   /\ UNCHANGED <<argv, pending, processPromise>>
              ELSE /\ argv' = setNumRowsAndNumCols(argv, Len(names))
                   /\ console' = <<Log("log", "Detecting number of columns and number of rows in output image...", <<>>),
                                   Log("log", "Processing all images...", <<>>)>>
                   /\ processPromise' = PendingPromise
                   /\ pending' = {names[i] : i \in 1..Len(names)}
    /\ UNCHANGED <<cmdline, dirEntries, files, imageDataArray, gridPromise,
                   microtasks, sortedImageArray, written, hsvCall>>

-----------------------------------------------------------------------------
(* Images.  An image is its bitmap size, the colour a resize to 1x1 gives  *)
(* (avg, as <<r, g, b, a>>), the picture its pixels show (pixels: a number *)
(* that two files share exactly when they decode to the same pixels, and 0 *)
(* for the flat fill of new Jimp) and whether greyscale() was applied.     *)

\* Jimp.read of a decodable file.
JimpRead(content) ==
    [pixels |-> content.pixels, width |-> content.width, height |-> content.height,
     avg |-> content.avg, grey |-> FALSE]

\* image.greyscale(): every pixel becomes its weighted grey level.
Greyscale(img) ==
    LET g == (2126 * img.avg[1] + 7152 * img.avg[2] + 722 * img.avg[3]) \div 10000
    IN  [img EXCEPT !.avg = <<g, g, g, img.avg[4]>>, !.grey = TRUE]

\* image.resize({w, h}) and image.cover({w, h}): the bitmap takes the new size.
Resize(img, w, h) == [img EXCEPT !.width = w, !.height = h]
Cover(img, w, h) == [img EXCEPT !.width = w, !.height = h]

\* new Jimp({width, height, color})
NewJimp(w, h, color) ==
    [pixels |-> 0, width |-> w, height |-> h, avg |-> color, grey |-> FALSE]

HexChar == <<"0", "1", "2", "3", "4", "5", "6", "7", "8", "9",
             "a", "b", "c", "d", "e", "f">>

HexValue(c) == (CHOOSE i \in 1..16 : HexChar[i] = c) - 1

\* The two hexadecimal digits of a byte.
Hex2(byte) == <<HexChar[(byte \div 16) + 1], HexChar[(byte % 16) + 1]>>

RECURSIVE StripLeadingZeros(_)
StripLeadingZeros(s) ==
    IF Len(s) > 1 /\ s[1] = "0" THEN StripLeadingZeros(Tail(s)) ELSE s

\* getPixelColor(0, 0).toString(16): the 32-bit value 0xRRGGBBAA written in
\* base 16, which has no leading zeros.
PixelToString16(rgba) ==
    StripLeadingZeros(Hex2(rgba[1]) \o Hex2(rgba[2]) \o Hex2(rgba[3]) \o Hex2(rgba[4]))

\* String.prototype.substring(from, to), 0-based, to exclusive.
Substring(s, from, to) ==
    SubSeq(s, from + 1, IF to < Len(s) THEN to ELSE Len(s))

\* parseInt(s, 16) of a string of two hexadecimal digits.
ParseHex2(s) == 16 * HexValue(s[1]) + HexValue(s[2])

\* Line 190.
ColorHexString(rgba) == PadStart(Substring(PixelToString16(rgba), 0, 6), 6, "0")

\* Lines 193-197.
ColorHex(colorHexString) ==
    [r |-> ParseHex2(Substring(colorHexString, 0, 2)),
     g |-> ParseHex2(Substring(colorHexString, 2, 4)),
     b |-> ParseHex2(Substring(colorHexString, 4, 6))]

Min2(a, b) == IF a <= b THEN a ELSE b
Max2(a, b) == IF a >= b THEN a ELSE b
Abs(a) == IF a < 0 THEN -a ELSE a

\* Math.round(n / d), and (n / d).toFixed of a non-negative quotient, for
\* d > 0: the nearest integer, a half going up.
RoundDiv(n, d) == (2 * n + d) \div (2 * d)

\* hexToHSV with the V of HSV, the largest channel, for value.
hexToHSVValueIsMax(hexRGB) ==
    LET r == hexRGB.r
        g == hexRGB.g
        b == hexRGB.b
        cmin == Min2(r, Min2(g, b))
        cmax == Max2(r, Max2(g, b))
        delta == cmax - cmin
        hue60 == IF delta = 0 THEN 0
                 ELSE IF cmax = r THEN RoundDiv(60 * (g - b), delta)
                 ELSE IF cmax = g THEN RoundDiv(60 * (b - r) + 120 * delta, delta)
                 ELSE RoundDiv(60 * (r - g) + 240 * delta, delta)
    IN  [hue |-> IF hue60 < 0 THEN hue60 + 360 ELSE hue60,
         saturation |-> IF cmax = 0 THEN 0 ELSE RoundDiv(1000 * delta, cmax),
         value |-> RoundDiv(1000 * cmax, 255)]

\* hexToHSV without lines 116-117: a negative hue stays negative.
hexToHSVNoWrap(hexRGB) ==
    LET r == hexRGB.r
        g == hexRGB.g
        b == hexRGB.b
        cmin == Min2(r, Min2(g, b))
        cmax == Max2(r, Max2(g, b))
        delta == cmax - cmin
    IN  [hue |-> IF delta = 0 THEN 0
                 ELSE IF cmax = r THEN RoundDiv(60 * (g - b), delta)
                 ELSE IF cmax = g THEN RoundDiv(60 * (b - r) + 120 * delta, delta)
                 ELSE RoundDiv(60 * (r - g) + 240 * delta, delta),
         saturation |-> IF delta = 0 THEN 0
                        ELSE RoundDiv(1000 * delta, 255 - Abs(cmax + cmin - 255)),
         value |-> RoundDiv(1000 * (cmax + cmin), 510)]

\* hexToHSV.  The channels stay integers (r/255 is the channel r in units
\* of 1/255); saturation and value are returned in tenths of a percent, which
\* is what toFixed(1) keeps of them.
hexToHSV(hexRGB) ==
    LET r == hexRGB.r
        g == hexRGB.g
        b == hexRGB.b
        cmin == Min2(r, Min2(g, b))
        cmax == Max2(r, Max2(g, b))
        delta == cmax - cmin
        hue60 == IF delta = 0 THEN 0
                 ELSE IF cmax = r THEN RoundDiv(60 * (g - b), delta)
                 ELSE IF cmax = g THEN RoundDiv(60 * (b - r) + 120 * delta, delta)
                 ELSE RoundDiv(60 * (r - g) + 240 * delta, delta)
        hue == IF hue60 < 0 THEN hue60 + 360 ELSE hue60
        \* value = (cmax + cmin) / 2, in units of 1/255
        value10 == RoundDiv(1000 * (cmax + cmin), 510)
        \* 1 - |2 * value - 1| = (255 - |cmax + cmin - 255|) / 255
        saturation10 == IF delta = 0 THEN 0
                        ELSE RoundDiv(1000 * delta, 255 - Abs(cmax + cmin - 255))
    IN  [hue |-> hue, saturation |-> saturation10, value |-> value10]

\* Line 202, in hundredths.
Luma(colorHex) == 30 * colorHex.r + 59 * colorHex.g + 11 * colorHex.b

\* Lines 190-203: the colorInfo of the 1x1 clone.
ColorInfoOf(imageClone) ==
    LET colorHexString == ColorHexString(imageClone.avg)
        colorHex == ColorHex(colorHexString)
        hsv == hexToHSV(colorHex)
    IN  [hue |-> hsv.hue, saturation |-> hsv.saturation, value |-> hsv.value,
         luma |-> Luma(colorHex), colorHexString |-> colorHexString]

\* Lines 165-207: the record the .then handler of Jimp.read builds.
MakeImageData(a, imageFilename, currentImage) ==
    IF a.sortParameter # "filename"
    THEN LET image == IF a.greyscale THEN Greyscale(currentImage) ELSE currentImage
         IN  [imageFilename |-> imageFilename,
              image |-> image,
              fourByFour |-> IF a.visualizationMode = "4x4"
                             THEN Resize(image, 4, 4) ELSE UndefinedObj,
              colorInfo |-> ColorInfoOf(Resize(image, 1, 1)),
              outputImage |-> UndefinedObj]
    ELSE [imageFilename |-> imageFilename, image |-> currentImage,
          fourByFour |-> UndefinedObj, colorInfo |-> UndefinedObj,
          outputImage |-> UndefinedObj]

\* Line 200, as the record shows it: the argument hexToHSV was called with
\* and what it returned.
HsvCallOf(data) ==
    [hexRGB |-> ColorHex(data.colorInfo.colorHexString),
     result |-> [hue |-> data.colorInfo.hue, saturation |-> data.colorInfo.saturation,
                 value |-> data.colorInfo.value]]

\* hexToHSV called on its own: from the call to the return.
HexToHSVCall ==
    /\ pc = "hexToHSV"
    /\ pc' = "returned"
    /\ hsvCall' = [hsvCall EXCEPT !.result = hexToHSV(hsvCall.hexRGB)]
    /\ UNCHANGED <<cmdline, argv, dirEntries, files, imageFilenames, pending,
                   imageDataArray, processPromise, gridPromise, microtasks,
                   sortedImageArray, written, console>>

\* The numbers hexToHSV divides by on the argument hexRGB, in the units of
\* the model: 255 (lines 95-97), delta in the hue branches (lines 107-112)
\* and 1 - |2 * value - 1| (line 120), the last two only when delta is not 0.
Divisors(hexRGB) ==
    LET cmin == Min2(hexRGB.r, Min2(hexRGB.g, hexRGB.b))
        cmax == Max2(hexRGB.r, Max2(hexRGB.g, hexRGB.b))
        delta == cmax - cmin
    IN  {255} \cup (IF delta = 0 THEN {}
                    ELSE {delta, 255 - Abs(cmax + cmin - 255)})

\* Lines 201-202 after hexToHSV has returned: the luma is added to the
\* object it returned.
AddLuma ==
    /\ pc = "returned"
    /\ pc' = "luma"
    /\ hsvCall' = [hexRGB |-> hsvCall.hexRGB,
                   result |-> [hue |-> hsvCall.result.hue,
                               saturation |-> hsvCall.result.saturation,
                               value |-> hsvCall.result.value,
                               luma |-> Luma(hsvCall.hexRGB)]]
    /\ UNCHANGED <<cmdline, argv, dirEntries, files, imageFilenames, pending,
                   imageDataArray, processPromise, gridPromise, microtasks,
                   sortedImageArray, written, console>>

\* determinePxPerImage: argv.pxPerImage after the call.
RECURSIVE MinDimension(_, _, _)
MinDimension(arr, i, px) ==
    IF i > Len(arr) THEN px
    ELSE MinDimension(arr, i + 1,
            Min2(IF Truthy(px) THEN px ELSE 999999,
                 Min2(arr[i].image.width, arr[i].image.height)))

\* The minimum of the widths alone.
RECURSIVE MinWidth(_, _, _)
MinWidth(arr, i, px) ==
    IF i > Len(arr) THEN px
    ELSE MinWidth(arr, i + 1, Min2(IF Truthy(px) THEN px ELSE 999999, arr[i].image.width))

determinePxPerImageWidthOnly(a, arr) ==
    IF Truthy(a.pxPerImage) THEN a
    ELSE [a EXCEPT !.pxPerImage = MinWidth(arr, 1, a.pxPerImage)]

determinePxPerImage(a, arr) ==
    IF Truthy(a.pxPerImage) THEN a
    ELSE [a EXCEPT !.pxPerImage = MinDimension(arr, 1, a.pxPerImage)]

\* The body of the forEach of lines 224-250 for one record; it throws a
\* TypeError when it reads a property of an undefined value.
Throws(a, data) ==
    \/ a.visualizationMode = "4x4" /\ data.fourByFour = UndefinedObj
    \/ a.visualizationMode = "dominant" /\ data.colorInfo = UndefinedObj

ParseColor(colorHexString) ==
    <<ParseHex2(Substring(colorHexString, 0, 2)),
      ParseHex2(Substring(colorHexString, 2, 4)),
      ParseHex2(Substring(colorHexString, 4, 6)), 255>>

OutputImageOf(a, data) ==
    IF a.visualizationMode = "normal"
    THEN Cover(data.image, a.pxPerImage, a.pxPerImage)
    ELSE IF a.visualizationMode = "4x4"
    THEN Resize(data.fourByFour, a.pxPerImage, a.pxPerImage)
    ELSE NewJimp(a.pxPerImage, a.pxPerImage, ParseColor(data.colorInfo.colorHexString))

\* The forEach stops at the first record that throws; the records before it
\* have their outputImage.
FirstThrow(a, arr) ==
    LET bad == {i \in 1..Len(arr) : Throws(a, arr[i])}
    IN  IF bad = {} THEN 0 ELSE CHOOSE i \in bad : \A j \in bad : i <= j

SetOutputImages(a, arr) ==
    LET stop == FirstThrow(a, arr)
    IN  [i \in 1..Len(arr) |->
            IF stop = 0 \/ i < stop
            THEN [arr[i] EXCEPT !.outputImage = OutputImageOf(a, arr[i])]
            ELSE arr[i]]

\* A barrier that is off by one.
AllProcessedOffByOne(arr, names) == Len(arr) >= Len(names) - 1

\* A barrier that opens as soon as one record is there.
AllProcessedEarly(arr, names) == Len(arr) >= 1

\* The completion barrier of line 214.
AllProcessed(arr, names) == Len(arr) = Len(names)

\* resolve / reject of a promise: only a pending promise settles.
Settle(p, state, value) ==
    IF p.state = "pending" THEN [state |-> state, value |-> value] ELSE p

ReadError(imageFilename, error) ==
    [text |-> "Error when reading <imageFilename>! Error: <error>",
     arg |-> imageFilename, error |-> error]

\* The .then handler of Jimp.read, lines 164-254, with the .catch of line 255
\* for what it throws.
ReadResolved(imageFilename) ==
    /\ pc = "eventloop"
    /\ microtasks = <<>>
    /\ imageFilename \in pending
    /\ files[imageFilename].decodes
    /\ pending' = pending \ {imageFilename}
    /\ LET data == MakeImageData(argv, imageFilename, JimpRead(files[imageFilename]))
           arr == Append(imageDataArray, data)
       IN  IF AllProcessed(arr, imageFilenames)
           THEN LET a == determinePxPerImage(argv, arr)
                    thrown == FirstThrow(a, arr) # 0
                    settled == IF thrown
                               THEN Settle(processPromise, "rejected",
                                           ReadError(imageFilename, "TypeError"))
                               ELSE Settle(processPromise, "fulfilled", <<>>)
                IN  /\ argv' = a
                    /\ imageDataArray' = SetOutputImages(a, arr)
                    /\ processPromise' = settled
                    /\ microtasks' = IF settled = processPromise THEN microtasks
                                     ELSE IF thrown
                                     THEN Append(microtasks, "onProcessError")
                                     ELSE Append(microtasks, "onImagesProcessed")
                    /\ console' = Append(console, Log("log", "Done processing images!", <<>>))
           ELSE /\ imageDataArray' = arr
                /\ UNCHANGED <<argv, processPromise, microtasks, console>>
    /\ hsvCall' = IF argv.sortParameter # "filename"
                   THEN HsvCallOf(MakeImageData(argv, imageFilename,
                                                JimpRead(files[imageFilename])))
                   ELSE hsvCall
    /\ UNCHANGED <<pc, cmdline, dirEntries, files, imageFilenames, gridPromise,
                   sortedImageArray, written>>

\* The .catch handler of line 255 for a file Jimp.read cannot decode.
ReadRejected(imageFilename) ==
    /\ pc = "eventloop"
    /\ microtasks = <<>>
    /\ imageFilename \in pending
    /\ ~files[imageFilename].decodes
    /\ pending' = pending \ {imageFilename}
    /\ processPromise' = Settle(processPromise, "rejected",
                                ReadError(imageFilename, "decode"))
    /\ microtasks' = IF processPromise' = processPromise THEN microtasks
                     ELSE Append(microtasks, "onProcessError")
    /\ UNCHANGED <<pc, cmdline, argv, dirEntries, files, imageFilenames,
                   imageDataArray, gridPromise, sortedImageArray, written, console,
                   hsvCall>>

-----------------------------------------------------------------------------
(* The sort of lines 352-358.                                              *)

\* The collation of String.prototype.localeCompare on the characters the
\* model uses: punctuation, then digits, then letters, a letter's case
\* deciding only between strings equal otherwise (lower case first).
CollationOrder == <<".", "/", "_", "0", "1", "2", "3", "4", "5", "6", "7", "8", "9",
                    "a", "b", "c", "d", "e", "f", "g", "h", "i", "j", "k", "l", "m",
                    "n", "o", "p", "q", "r", "s", "t", "u", "v", "w", "x", "y", "z">>

PrimaryKey(c) ==
    LET l == IF c \in DOMAIN LowerOf THEN LowerOf[c] ELSE c
    IN  CHOOSE i \in 1..Len(CollationOrder) : CollationOrder[i] = l

CaseKey(c) == IF c \in DOMAIN LowerOf THEN 1 ELSE 0

\* Lexicographic comparison of two sequences of integers: -1, 0 or 1.
RECURSIVE LexCompare(_, _)
LexCompare(s, t) ==
    IF s = <<>> /\ t = <<>> THEN 0
    ELSE IF s = <<>> THEN -1
    ELSE IF t = <<>> THEN 1
    ELSE IF s[1] < t[1] THEN -1
    ELSE IF s[1] > t[1] THEN 1
    ELSE LexCompare(Tail(s), Tail(t))

localeCompare(s, t) ==
    LET primary == LexCompare([i \in 1..Len(s) |-> PrimaryKey(s[i])],
                              [i \in 1..Len(t) |-> PrimaryKey(t[i])])
    IN  IF primary # 0 THEN primary
        ELSE LexCompare([i \in 1..Len(s) |-> CaseKey(s[i])],
                        [i \in 1..Len(t) |-> CaseKey(t[i])])

\* The comparator of lines 352-358.
CompareImageData(a, x, y) ==
    IF a.sortParameter = "filename"
    THEN localeCompare(x.imageFilename, y.imageFilename)
    ELSE x.colorInfo[a.sortParameter] - y.colorInfo[a.sortParameter]

\* Array.prototype.sort is stable: a record goes after every record already
\* placed that does not compare greater than it.
RECURSIVE InsertSorted(_, _, _)
InsertSorted(a, sorted, x) ==
    IF sorted = <<>> THEN <<x>>
    ELSE IF CompareImageData(a, sorted[Len(sorted)], x) <= 0
    THEN Append(sorted, x)
    ELSE Append(InsertSorted(a, SubSeq(sorted, 1, Len(sorted) - 1), x),
                sorted[Len(sorted)])

\* A sort that is not stable: a record goes before the records already placed
\* that compare equal to it.
RECURSIVE InsertUnstable(_, _, _)
InsertUnstable(a, sorted, x) ==
    IF sorted = <<>> THEN <<x>>
    ELSE IF CompareImageData(a, sorted[Len(sorted)], x) < 0
    THEN Append(sorted, x)
    ELSE Append(InsertUnstable(a, SubSeq(sorted, 1, Len(sorted) - 1), x),
                sorted[Len(sorted)])
RECURSIVE SortUnstableFrom(_, _, _, _)
SortUnstableFrom(a, arr, i, sorted) ==
    IF i > Len(arr) THEN sorted
    ELSE SortUnstableFrom(a, arr, i + 1, InsertUnstable(a, sorted, arr[i]))
SortImageDataUnstable(a, arr) == SortUnstableFrom(a, arr, 1, <<>>)

RECURSIVE SortFrom(_, _, _, _)
SortFrom(a, arr, i, sorted) ==
    IF i > Len(arr) THEN sorted
    ELSE SortFrom(a, arr, i + 1, InsertSorted(a, sorted, arr[i]))

SortImageData(a, arr) == SortFrom(a, arr, 1, <<>>)

-----------------------------------------------------------------------------
(* createOutputGrid, lines 262-300.  The canvas keeps every composite call *)
(* in order: the image, its pixel origin and the array index it was read   *)
(* from.                                                                   *)

\* A canvas with rows and columns exchanged.
NewCanvasTransposed(a) ==
    [width |-> a.numRows * a.pxPerImage, height |-> a.numColumns * a.pxPerImage,
     composites |-> <<>>, invalid |-> 0]

NewCanvas(a) ==
    [width |-> a.numColumns * a.pxPerImage, height |-> a.numRows * a.pxPerImage,
     composites |-> <<>>, invalid |-> 0]

\* A loop body that starts over at the first image when the array runs out.
CompositeCellWrapping(canvas, imageArray, index, outputX, outputY) ==
    [canvas EXCEPT !.composites =
        Append(@, [image |-> imageArray[(index % Len(imageArray)) + 1], x |-> outputX,
                   y |-> outputY, index |-> index % Len(imageArray)])]

\* One pass of the inner loop body, lines 274-280 and 286-292.
CompositeCell(canvas, imageArray, index, outputX, outputY) ==
    IF index + 1 <= Len(imageArray)
    THEN [canvas EXCEPT !.composites =
              Append(@, [image |-> imageArray[index + 1], x |-> outputX,
                         y |-> outputY, index |-> index])]
    ELSE [canvas EXCEPT !.invalid = @ + 1]

\* Lines 272-282.
RECURSIVE RowMajorLoop(_, _, _, _, _, _)
RowMajorLoop(a, imageArray, outputY, outputX, index, canvas) ==
    IF ~(outputY < a.numRows * a.pxPerImage) THEN canvas
    ELSE IF ~(outputX < a.numColumns * a.pxPerImage)
    THEN RowMajorLoop(a, imageArray, outputY + a.pxPerImage, 0, index, canvas)
    ELSE RowMajorLoop(a, imageArray, outputY, outputX + a.pxPerImage, index + 1,
                      CompositeCell(canvas, imageArray, index, outputX, outputY))

\* Lines 284-294.
RECURSIVE ColumnMajorLoop(_, _, _, _, _, _)
ColumnMajorLoop(a, imageArray, outputX, outputY, index, canvas) ==
    IF ~(outputX < a.numColumns * a.pxPerImage) THEN canvas
    ELSE IF ~(outputY < a.numRows * a.pxPerImage)
    THEN ColumnMajorLoop(a, imageArray, outputX + a.pxPerImage, 0, index, canvas)
    ELSE ColumnMajorLoop(a, imageArray, outputX, outputY + a.pxPerImage, index + 1,
                         CompositeCell(canvas, imageArray, index, outputX, outputY))

\* The two loop nests exchanged.
RowMajorGridTransposed(a, imageArray) ==
    ColumnMajorLoop(a, imageArray, 0, 0, 0, NewCanvas(a))
ColumnMajorGridTransposed(a, imageArray) ==
    RowMajorLoop(a, imageArray, 0, 0, 0, NewCanvas(a))

RowMajorGrid(a, imageArray) == RowMajorLoop(a, imageArray, 0, 0, 0, NewCanvas(a))

ColumnMajorGrid(a, imageArray) == ColumnMajorLoop(a, imageArray, 0, 0, 0, NewCanvas(a))

\* The canvas createOutputGrid resolves its promise with.
createOutputGrid(a, imageArray) ==
    IF a.sortOrder = "row-major"
    THEN RowMajorGrid(a, imageArray)
    ELSE ColumnMajorGrid(a, imageArray)

-----------------------------------------------------------------------------
(* The .then handler of processImages, lines 348-424.                      *)

TABLE == <<"t", "a", "b", "l", "e">>
FILES == <<"f", "i", "l", "e", "s">>
OutputImageFolder == <<".", "/", "o", "u", "t", "p", "u", "t", "/">>

\* No padding at all.
NumberWidthUnpadded(count) == 1

\* The width the file numbers are padded to, line 404.
NumberWidth(count) == Len(NumToString(count))

\* The path of line 404 for loop index i (0-based).
NumberedPath(i, count) ==
    OutputImageFolder \o PadStart(NumToString(i + 1), NumberWidth(count), "0") \o DotPng

\* The loop of lines 403-405.
WriteFiles(images) ==
    [i \in 1..Len(images) |->
        [path |-> NumberedPath(i - 1, Len(images)), image |-> images[i]]]

\* Which of the three branches of lines 398-423 runs.
OutputMode(a) ==
    IF a.outputFilename = TABLE THEN "table"
    ELSE IF a.outputFilename = FILES THEN "files"
    ELSE "grid"

OnImagesProcessed ==
    /\ microtasks # <<>>
    /\ Head(microtasks) = "onImagesProcessed"
    /\ LET sorted == SortImageData(argv, imageDataArray)
           images == [i \in 1..Len(sorted) |-> sorted[i].outputImage]
           mode == OutputMode(argv)
       IN  /\ imageDataArray' = sorted
           /\ sortedImageArray' = images
           /\ written' = IF mode = "files" THEN written \o WriteFiles(images)
                         ELSE written
           /\ gridPromise' = IF mode = "grid"
                             THEN [state |-> "fulfilled",
                                   value |-> createOutputGrid(argv, images)]
                             ELSE gridPromise
           /\ microtasks' = IF mode = "grid"
                            THEN Append(Tail(microtasks), "onGridResolved")
                            ELSE Tail(microtasks)
           /\ console' = console \o
                <<Log("log", "Images processed successfully! Sorting images into sortedImageArray...", <<>>),
                  Log("log", "Sorted!", <<>>)>> \o
                (IF mode = "files"
                 THEN <<Log("log", "Writing output images in numeric order to <outputImageFolder><n>.png...", <<>>)>>
                 ELSE IF mode = "grid"
                 THEN <<Log("log", "Compositing output image in <sortOrder> order...", <<>>)>>
                      \o [i \in 1..gridPromise'.value.invalid |->
                            Log("error", "Invalid currentImage!", <<>>)]
                      \o <<Log("log", "Done compositing output image!", <<>>)>>
                 ELSE <<>>)
    /\ UNCHANGED <<pc, cmdline, argv, dirEntries, files, imageFilenames, pending,
                   processPromise, hsvCall>>

\* The file name of lines 410-415; Date.now() is the element "<Date.now()>".
OutputImageFilename(a) ==
    IF a.outputFilename # NoOutputFilename THEN a.outputFilename
    ELSE OutputImageFolder \o <<"<Date.now()>", "_">> \o NumToString(a.numColumns)
         \o <<"x">> \o NumToString(a.numRows)
         \o <<"_", a.sortOrder, "_", a.sortParameter, "_", a.visualizationMode>>
         \o DotPng

\* The .then handler of createOutputGrid, lines 409-419.
OnGridResolved ==
    /\ microtasks # <<>>
    /\ Head(microtasks) = "onGridResolved"
    /\ microtasks' = Tail(microtasks)
    /\ written' = Append(written, [path |-> OutputImageFilename(argv),
                                   image |-> gridPromise.value])
    /\ console' = Append(console, Log("log", "Writing output image to <outputImageFilename>...", <<>>))
    /\ UNCHANGED <<pc, cmdline, argv, dirEntries, files, imageFilenames, pending,
                   imageDataArray, processPromise, gridPromise, sortedImageArray,
                   hsvCall>>

\* The .catch handler of lines 425-427.
OnProcessError ==
    /\ microtasks # <<>>
    /\ Head(microtasks) = "onProcessError"
    /\ microtasks' = Tail(microtasks)
    /\ console' = Append(console, Log("error", "Error when processing images! Error: <error>",
                                      processPromise.value))
    /\ UNCHANGED <<pc, cmdline, argv, dirEntries, files, imageFilenames, pending,
                   imageDataArray, processPromise, gridPromise, sortedImageArray,
                   written, hsvCall>>

-----------------------------------------------------------------------------
(* Inputs.                                                                 *)

Range(s) == {s[i] : i \in 1..Len(s)}

DotJPG == <<".", "J", "P", "G">>
DotTxt == <<".", "t", "x", "t">>
Letters == <<"a", "b", "c", "d", "e", "f", "g", "h">>

\* The i-th qualifying entry: a.png, b.JPG, c.png, ...
QualifyingName(i) == <<Letters[i]>> \o (IF i % 2 = 1 THEN DotPng ELSE DotJPG)
OtherName == <<"z">> \o DotTxt
\* The i-th entry of a numbered directory: 1.png, 2.png, ...
NumberedName(i) == NumToString(i) \o DotPng

Undecodable ==
    [decodes |-> FALSE, pixels |-> 0, width |-> 0, height |-> 0, avg |-> <<0, 0, 0, 0>>]
RedImage ==
    [decodes |-> TRUE, pixels |-> 1, width |-> 4, height |-> 2, avg |-> <<255, 0, 0, 255>>]
GreyImage ==
    [decodes |-> TRUE, pixels |-> 2, width |-> 3, height |-> 3, avg |-> <<128, 128, 128, 255>>]
BlueImage ==
    [decodes |-> TRUE, pixels |-> 3, width |-> 5, height |-> 4, avg |-> <<0, 0, 255, 255>>]
\* The i-th of a series of different grey pictures.
GreyPicture(i) == [GreyImage EXCEPT !.pixels = i]
Images == {RedImage, GreyImage, BlueImage}
\* What a file of Spec holds: red and grey have the same hue.
FileContents == {Undecodable, RedImage, GreyImage}

\* yargs' defaults, lines 29-85.
DefaultArgv ==
    [numRows |-> undefined, numColumns |-> undefined, pxPerImage |-> undefined,
     outputFilename |-> NoOutputFilename, sortOrder |-> "column-major", sortParameter |-> "hue",
     visualizationMode |-> "normal", greyscale |-> FALSE]

OutPng == <<"o">> \o DotPng

\* The state when line 431 is about to call the entry point.
Loaded(entries, contents, a) ==
    /\ pc = "main"
    /\ cmdline = a
    /\ argv = a
    /\ dirEntries = entries
    /\ files = contents
    /\ imageFilenames = <<>>
    /\ pending = {}
    /\ imageDataArray = <<>>
    /\ processPromise = NoPromise
    /\ gridPromise = NoPromise
    /\ microtasks = <<>>
    /\ sortedImageArray = <<>>
    /\ written = <<>>
    /\ console = <<>>
    /\ hsvCall = UndefinedObj

\* The state in which processImages has just resolved its promise, every file
\* of entries being decodable and the reads having completed in the order
\* order (a permutation of the indices of entries).
Resolved(entries, contents, a, order) ==
    LET a1 == setNumRowsAndNumCols(a, Len(entries))
        arr == [i \in 1..Len(entries) |->
                  MakeImageData(a1, entries[order[i]], JimpRead(contents[entries[order[i]]]))]
        a2 == determinePxPerImage(a1, arr)
    IN  /\ pc = "eventloop"
        /\ cmdline = a
        /\ argv = a2
        /\ dirEntries = entries
        /\ files = contents
        /\ imageFilenames = entries
        /\ pending = {}
        /\ imageDataArray = SetOutputImages(a2, arr)
        /\ processPromise = [state |-> "fulfilled", value |-> <<>>]
        /\ gridPromise = NoPromise
        /\ microtasks = <<"onImagesProcessed">>
        /\ sortedImageArray = <<>>
        /\ written = <<>>
        /\ console = <<Log("log", "Detecting number of columns and number of rows in output image...", <<>>),
                       Log("log", "Processing all images...", <<>>),
                       Log("log", "Done processing images!", <<>>)>>
        /\ hsvCall = IF a.sortParameter # "filename"
                     THEN HsvCallOf(arr[Len(arr)]) ELSE UndefinedObj

Orders(n) == {p \in [1..n -> 1..n] : \A i, j \in 1..n : p[i] = p[j] => i = j}

Identity(n) == [i \in 1..n |-> i]

-----------------------------------------------------------------------------
(* Spec: the whole run, from the entry point to the last handler.          *)

Hints(max) == {undefined} \cup 1..max

Init ==
    \E chosen \in SUBSET (1..MaxFiles), other \in BOOLEAN :
      LET Chosen(n) == \E i \in chosen : n = QualifyingName(i)
          entries == SelectSeq([i \in 1..MaxFiles |-> QualifyingName(i)], Chosen)
                     \o (IF other THEN <<OtherName>> ELSE <<>>)
      IN  \E contents \in [Range(entries) -> FileContents],
             rows \in Hints(MaxPipelineHint), columns \in Hints(MaxPipelineHint),
             out \in {NoOutputFilename, FILES, TABLE, OutPng},
             order \in SORT_ORDERS, parameter \in SORT_PARAMETERS,
             mode \in VISUALIZATION_MODES, grey \in BOOLEAN :
            /\ other => contents[OtherName] = Undecodable
            /\ Loaded(entries, contents,
                      [numRows |-> rows, numColumns |-> columns,
                       pxPerImage |-> undefined, outputFilename |-> out, sortOrder |-> order,
                       sortParameter |-> parameter, visualizationMode |-> mode,
                       greyscale |-> grey])

Next ==
    \/ Start
    \/ \E imageFilename \in pending : ReadResolved(imageFilename)
    \/ \E imageFilename \in pending : ReadRejected(imageFilename)
    \/ OnImagesProcessed
    \/ OnGridResolved
    \/ OnProcessError

Spec == Init /\ [][Next]_vars

-----------------------------------------------------------------------------
(* SpecFilter: the entry point on every short listing of FilterNames.      *)

FilterNames ==
    {<<"a">> \o DotJpg, <<"b">> \o DotJPG, <<"c", ".", "J", "p", "g">>,
     <<"d">> \o DotPng, <<"e", ".", "P", "N", "G">>,
     <<"f">> \o DotJpg \o DotTxt, <<"g">> \o DotPng \o <<".", "b", "a", "k">>,
     <<"h">> \o DotTxt, <<"j", "p", "g">>, <<"p", ".", "j", "p", "e", "g">>,
     DotPng, <<"n", ".", "p", "n">>}

Listings == UNION {[1..n -> FilterNames] : n \in 0..MaxListing}

InitFilter ==
    \E entries \in Listings :
        Loaded(entries, [n \in Range(entries) |-> Undecodable], DefaultArgv)

SpecFilter == InitFilter /\ [][Start]_vars

-----------------------------------------------------------------------------
(* SpecDims: the entry point on a directory of 1..MaxDimImages images,     *)
(* with every pair of row and column hints.                                *)

NumberedEntries(n) == [i \in 1..n |-> NumberedName(i)]

AllGrey(entries) ==
    [n \in Range(entries) |-> GreyPicture(CHOOSE i \in 1..Len(entries) : entries[i] = n)]

InitDims ==
    \E n \in 1..MaxDimImages,
       rows \in {undefined} \cup 0..MaxHint, columns \in {undefined} \cup 0..MaxHint :
        Loaded(NumberedEntries(n), AllGrey(NumberedEntries(n)),
               [DefaultArgv EXCEPT !.numRows = rows, !.numColumns = columns])

SpecDims == InitDims /\ [][Start]_vars

-----------------------------------------------------------------------------
(* SpecSort: the .then handler of processImages on every record collection *)
(* of up to MaxSortImages images, in every completion order, for every     *)
(* sort parameter.  The output mode is "table", which stops after the sort.*)

InitSort ==
    \E n \in 1..MaxSortImages, parameter \in SORT_PARAMETERS :
      LET entries == [i \in 1..n |-> QualifyingName(i)]
      IN  \E contents \in [Range(entries) -> Images], order \in Orders(n) :
            Resolved(entries, contents,
                     [DefaultArgv EXCEPT !.sortParameter = parameter,
                                         !.outputFilename = TABLE],
                     order)

SpecSort == InitSort /\ [][OnImagesProcessed]_vars

-----------------------------------------------------------------------------
(* SpecGrid: the .then handlers on up to MaxGridImages images for every    *)
(* grid of up to MaxGridDim rows and columns, in both sort orders.         *)

InitGrid ==
    \E n \in 1..MaxGridImages, rows \in 1..MaxGridDim, columns \in 1..MaxGridDim,
       px \in 1..MaxPx, order \in SORT_ORDERS :
        Resolved(NumberedEntries(n), AllGrey(NumberedEntries(n)),
                 [DefaultArgv EXCEPT !.numRows = rows, !.numColumns = columns,
                                     !.pxPerImage = px, !.sortOrder = order,
                                     !.sortParameter = "filename",
                                     !.outputFilename = OutPng],
                 Identity(n))

NextGrid == OnImagesProcessed \/ OnGridResolved

SpecGrid == InitGrid /\ [][NextGrid]_vars

-----------------------------------------------------------------------------
(* SpecFiles: the .then handler of processImages in per-image output mode. *)

InitFiles ==
    \E n \in 1..MaxOutFiles, rows \in 1..2, columns \in 1..2,
       parameter \in {"filename", "hue"} :
        Resolved(NumberedEntries(n), AllGrey(NumberedEntries(n)),
                 [DefaultArgv EXCEPT !.numRows = rows, !.numColumns = columns,
                                     !.sortParameter = parameter,
                                     !.outputFilename = FILES],
                 Identity(n))

SpecFiles == InitFiles /\ [][OnImagesProcessed]_vars

-----------------------------------------------------------------------------
(* SpecPx: the run up to the completion barrier on directories of up to    *)
(* MaxPxFiles images of every size up to MaxSide x MaxSide, with and       *)
(* without a pxPerImage hint (0 is a hint yargs accepts and the code       *)
(* treats as absent).                                                      *)

SizedPicture(i, w, h) == [GreyPicture(i) EXCEPT !.width = w, !.height = h]

InitPx ==
    \E n \in 1..MaxPxFiles, px \in {undefined} \cup 0..MaxPxHint :
      LET entries == [i \in 1..n |-> QualifyingName(i)]
      IN  \E w \in [1..n -> 1..MaxSide], h \in [1..n -> 1..MaxSide] :
            Loaded(entries,
                   [f \in Range(entries) |->
                       LET i == CHOOSE k \in 1..n : entries[k] = f
                       IN  SizedPicture(i, w[i], h[i])],
                   [DefaultArgv EXCEPT !.pxPerImage = px])

NextPx ==
    \/ Start
    \/ \E imageFilename \in pending : ReadResolved(imageFilename)

SpecPx == InitPx /\ [][NextPx]_vars

-----------------------------------------------------------------------------
(* SpecColor: the run up to the completion barrier on a directory of one   *)
(* opaque image whose 1x1 average is any grey level or any colour with     *)
(* channels in ChannelLevels.                                              *)

ChannelLevels == {0, 1, 15, 16, 17, 128, 255}

AveragePixels ==
    {<<k, k, k, 255>> : k \in 0..255}
        \cup {<<r, g, b, 255>> : r \in ChannelLevels, g \in ChannelLevels, b \in ChannelLevels}

InitColor ==
    \E avg \in AveragePixels, parameter \in SORT_PARAMETERS \ {"filename"} :
        Loaded(<<QualifyingName(1)>>,
               [f \in {QualifyingName(1)} |-> [GreyPicture(1) EXCEPT !.avg = avg]],
               [DefaultArgv EXCEPT !.sortParameter = parameter])

SpecColor == InitColor /\ [][NextPx]_vars

-----------------------------------------------------------------------------
(* SpecHSV: hexToHSV called on every triple of channels in ChannelLevels.  *)

InitHSV ==
    \E r \in ChannelLevels, g \in ChannelLevels, b \in ChannelLevels :
        /\ pc = "hexToHSV"
        /\ hsvCall = [hexRGB |-> [r |-> r, g |-> g, b |-> b], result |-> UndefinedObj]
        /\ cmdline = DefaultArgv
        /\ argv = DefaultArgv
        /\ dirEntries = <<>>
        /\ files = <<>>
        /\ imageFilenames = <<>>
        /\ pending = {}
        /\ imageDataArray = <<>>
        /\ processPromise = NoPromise
        /\ gridPromise = NoPromise
        /\ microtasks = <<>>
        /\ sortedImageArray = <<>>
        /\ written = <<>>
        /\ console = <<>>

SpecHSV == InitHSV /\ [][HexToHSVCall]_vars

-----------------------------------------------------------------------------
(* SpecColorInfo: lines 200-202 on every triple of channels in WideLevels: *)
(* hexToHSV is called, returns, and the luma is added.                     *)

WideLevels == {0, 1, 2, 15, 16, 17, 64, 127, 128, 129, 254, 255}

InitColorInfo ==
    \E r \in WideLevels, g \in WideLevels, b \in WideLevels :
        /\ pc = "hexToHSV"
        /\ hsvCall = [hexRGB |-> [r |-> r, g |-> g, b |-> b], result |-> UndefinedObj]
        /\ cmdline = DefaultArgv
        /\ argv = DefaultArgv
        /\ dirEntries = <<>>
        /\ files = <<>>
        /\ imageFilenames = <<>>
        /\ pending = {}
        /\ imageDataArray = <<>>
        /\ processPromise = NoPromise
        /\ gridPromise = NoPromise
        /\ microtasks = <<>>
        /\ sortedImageArray = <<>>
        /\ written = <<>>
        /\ console = <<>>

NextColorInfo == HexToHSVCall \/ AddLuma

SpecColorInfo == InitColorInfo /\ [][NextColorInfo]_vars

-----------------------------------------------------------------------------
(* Properties.                                                             *)

\* The .then handler of createOutputGrid's caller has a canvas to read.
GridDone == gridPromise.state = "fulfilled"

Composites == gridPromise.value.composites

\* Every composite call shows the image of the index it read, and exactly
\* the indices below min(N, rows * columns) were composited.
IndicesComposited ==
    LET n == Min2(Len(sortedImageArray), argv.numRows * argv.numColumns)
    IN  /\ \A k \in 1..Len(Composites) :
              /\ Composites[k].index < n
              /\ Composites[k].image = sortedImageArray[Composites[k].index + 1]
        /\ \A i \in 0..(n - 1) : \E k \in 1..Len(Composites) : Composites[k].index = i

\* C1: in row-major order the image at sorted index i is composited at pixel
\* origin ((i mod columns) * cellSize, (i div columns) * cellSize).
C1_RowMajorPlacement ==
    (GridDone /\ argv.sortOrder = "row-major") =>
        /\ IndicesComposited
        /\ \A k \in 1..Len(Composites) :
              LET i == Composites[k].index
              IN  /\ Composites[k].x = (i % argv.numColumns) * argv.pxPerImage
                  /\ Composites[k].y = (i \div argv.numColumns) * argv.pxPerImage

\* A 2x2 row-major grid of four images: image 1 is in row 0, column 1 and
\* image 2 in row 1, column 0.
C1_Witness ==
    /\ GridDone /\ argv.sortOrder = "row-major"
    /\ argv.numRows = 2 /\ argv.numColumns = 2 /\ argv.pxPerImage = 2
    /\ Len(sortedImageArray) = 4 /\ Len(Composites) = 4
    /\ Composites[2].index = 1 /\ Composites[2].x = 2 /\ Composites[2].y = 0
    /\ Composites[3].index = 2 /\ Composites[3].x = 0 /\ Composites[3].y = 2

\* C2: in column-major order the image at sorted index i is composited at
\* pixel origin ((i div rows) * cellSize, (i mod rows) * cellSize).
C2_ColumnMajorPlacement ==
    (GridDone /\ argv.sortOrder = "column-major") =>
        /\ IndicesComposited
        /\ \A k \in 1..Len(Composites) :
              LET i == Composites[k].index
              IN  /\ Composites[k].x = (i \div argv.numRows) * argv.pxPerImage
                  /\ Composites[k].y = (i % argv.numRows) * argv.pxPerImage

\* A 2x3 column-major grid of five images: image 1 is in row 1, column 0 and
\* image 4 in row 0, column 2.
C2_Witness ==
    /\ GridDone /\ argv.sortOrder = "column-major"
    /\ argv.numRows = 2 /\ argv.numColumns = 3 /\ argv.pxPerImage = 1
    /\ Len(sortedImageArray) = 5 /\ Len(Composites) = 5
    /\ Composites[2].index = 1 /\ Composites[2].x = 0 /\ Composites[2].y = 1
    /\ Composites[5].index = 4 /\ Composites[5].x = 2 /\ Composites[5].y = 0

\* q is the least integer with q * d >= n, that is ceil(n / d).
IsCeilOfQuotient(q, n, d) == q * d >= n /\ (q - 1) * d < n

\* q is the least non-negative integer with q * q >= n, that is ceil(sqrt(n)).
IsCeilOfRoot(q, n) == q >= 0 /\ q * q >= n /\ (q = 0 \/ (q - 1) * (q - 1) < n)

Given(hint) == hint # undefined /\ hint >= 1

\* C3: both hints given: both kept; only rows: columns = ceil(n / rows);
\* only columns: rows = ceil(n / columns); neither: rows = columns =
\* ceil(sqrt(n)).  For hints that are absent or positive.
C3_DimensionsResolved ==
    LET n == Len(imageFilenames)
        rows == cmdline.numRows
        columns == cmdline.numColumns
    IN  (pc = "eventloop" /\ n >= 1 /\ rows # 0 /\ columns # 0) =>
          /\ (Given(rows) /\ Given(columns)) =>
                argv.numRows = rows /\ argv.numColumns = columns
          /\ (Given(rows) /\ columns = undefined) =>
                argv.numRows = rows /\ IsCeilOfQuotient(argv.numColumns, n, rows)
          /\ (rows = undefined /\ Given(columns)) =>
                argv.numColumns = columns /\ IsCeilOfQuotient(argv.numRows, n, columns)
          /\ (rows = undefined /\ columns = undefined) =>
                argv.numRows = argv.numColumns /\ IsCeilOfRoot(argv.numRows, n)
          /\ (n = 10 /\ rows = undefined /\ columns = undefined) =>
                argv.numRows = 4 /\ argv.numColumns = 4
          /\ (n = 10 /\ rows = 2 /\ columns = undefined) => argv.numColumns = 5

\* Ten images and a hint of two rows give five columns.
C3_Witness ==
    /\ pc = "eventloop" /\ Len(imageFilenames) = 10
    /\ cmdline.numRows = 2 /\ cmdline.numColumns = undefined
    /\ argv.numRows = 2 /\ argv.numColumns = 5

-----------------------------------------------------------------------------
(* The sort.                                                               *)

\* The handler that sorts is the next one to run.
SortIsNext == microtasks # <<>> /\ Head(microtasks) = "onImagesProcessed"

\* The handler that sorts has run.
SortHasRun ==
    \E k \in 1..Len(console) : console[k].text = "Sorted!"

\* x does not come after y in the order of the sort parameter.
NotAfter(x, y) ==
    IF argv.sortParameter = "filename"
    THEN localeCompare(x.imageFilename, y.imageFilename) <= 0
    ELSE x.colorInfo[argv.sortParameter] <= y.colorInfo[argv.sortParameter]

SameAttribute(x, y) == NotAfter(x, y) /\ NotAfter(y, x)

\* The position of the record of a file in a record collection.
PositionIn(arr, imageFilename) ==
    CHOOSE k \in 1..Len(arr) : arr[k].imageFilename = imageFilename

IsStableAscendingSort(before, after) ==
    /\ Len(after) = Len(before)
    /\ Range(after) = Range(before)
    /\ \A i, j \in 1..Len(after) : i < j => NotAfter(after[i], after[j])
    /\ \A i, j \in 1..Len(before) :
          (i < j /\ SameAttribute(before[i], before[j])) =>
              PositionIn(after, before[i].imageFilename)
                  < PositionIn(after, before[j].imageFilename)

\* C4: the sort step leaves a permutation of the records that is ascending
\* in the sort parameter and keeps records of equal attribute in the order
\* they had before the sort; sortedImageArray lists their output images in
\* that order.
C4_StableAscendingSort ==
    [][SortIsNext =>
          /\ IsStableAscendingSort(imageDataArray, imageDataArray')
          /\ sortedImageArray' =
                [i \in 1..Len(imageDataArray') |-> imageDataArray'[i].outputImage]]_vars

\* Sorted by hue, b.JPG stands before a.png, which has the same hue, and
\* both before c.png: the tie kept the order the reads completed in.
C4_Witness ==
    /\ SortHasRun
    /\ argv.sortParameter = "hue"
    /\ Len(imageDataArray) = 3
    /\ imageDataArray[1].imageFilename = QualifyingName(2)
    /\ imageDataArray[2].imageFilename = QualifyingName(1)
    /\ imageDataArray[1].colorInfo.hue = imageDataArray[2].colorInfo.hue
    /\ imageDataArray[2].colorInfo.hue < imageDataArray[3].colorInfo.hue

-----------------------------------------------------------------------------
(* The run as a whole.                                                     *)

\* Nothing is left to run: every read has settled and every reaction ran.
RunOver == pc = "eventloop" /\ pending = {} /\ microtasks = <<>>

AllDecode == \A f \in Range(imageFilenames) : files[f].decodes

\* The output images, in sorted order, of the run in which the reads complete
\* in the order of the directory listing.
ListingOrderImages ==
    LET n == Len(imageFilenames)
        a1 == setNumRowsAndNumCols(cmdline, n)
        arr == [i \in 1..n |->
                  MakeImageData(a1, imageFilenames[i], JimpRead(files[imageFilenames[i]]))]
        a2 == determinePxPerImage(a1, arr)
        sorted == SortImageData(a2, SetOutputImages(a2, arr))
    IN  [i \in 1..n |-> sorted[i].outputImage]

\* C5: for fixed files and flags and an explicit output file name, the canvas
\* is the same in every run, whatever order the reads complete in.  Were it
\* so, the canvas of every run would be the canvas of the run whose reads
\* complete in listing order, which is one of the runs.
C5_SameCanvasInEveryRun ==
    (GridDone /\ argv.outputFilename = OutPng) =>
        gridPromise.value = createOutputGrid(argv, ListingOrderImages)

\* A console.error line of the .catch handler of line 425 that names a file
\* Jimp.read could not decode.
DecodeErrorReported ==
    \E k \in 1..Len(console) :
        /\ console[k].stream = "error"
        /\ console[k].text = "Error when processing images! Error: <error>"
        /\ console[k].arg.text = "Error when reading <imageFilename>! Error: <error>"
        /\ console[k].arg.error = "decode"
        /\ \E f \in Range(imageFilenames) : ~files[f].decodes /\ console[k].arg.arg = f

\* C6: when some input file fails to decode, nothing is ever written, the
\* sort and the composite never run, and once the run is over the error
\* message names a file that failed to decode.
C6_DecodeErrorAborts ==
    (pc = "eventloop" /\ ~AllDecode) =>
        /\ written = <<>>
        /\ ~SortHasRun
        /\ ~SortIsNext
        /\ sortedImageArray = <<>>
        /\ gridPromise = NoPromise
        /\ processPromise.state # "fulfilled"
        /\ RunOver => DecodeErrorReported

\* b.JPG failed to decode and was reported after a.png had been read and
\* its record pushed.
C6_Witness ==
    /\ RunOver
    /\ Len(imageFilenames) = 2
    /\ files[QualifyingName(1)].decodes
    /\ ~files[QualifyingName(2)].decodes
    /\ Len(imageDataArray) = 1
    /\ imageDataArray[1].imageFilename = QualifyingName(1)
    /\ console[Len(console)].arg.arg = QualifyingName(2)
    /\ DecodeErrorReported

\* String.prototype.endsWith
EndsWith(s, suffix) ==
    /\ Len(s) >= Len(suffix)
    /\ SubSeq(s, Len(s) - Len(suffix) + 1, Len(s)) = suffix

\* The name has the extension .jpg or .png, whatever its case.
HasImageExtension(name) ==
    \/ EndsWith(ToLowerCase(name), DotJpg)
    \/ EndsWith(ToLowerCase(name), DotPng)

\* The early return of lines 336-339 was taken: the input-empty error is the
\* only console line and no later stage has touched the state.
StoppedOnEmptyInput ==
    /\ console = <<Log("error", "There are no .jpg or .png images inside <inputDirectory>! Quitting...", <<>>)>>
    /\ argv = cmdline
    /\ pending = {}
    /\ imageDataArray = <<>>
    /\ processPromise = NoPromise
    /\ sortedImageArray = <<>>
    /\ gridPromise = NoPromise
    /\ written = <<>>

\* C7: when the directory holds no entry with an image extension, the run
\* reports the input-empty error and stops before any later stage.
C7_EmptyInputStopsTheRun ==
    (pc = "eventloop" /\ \A i \in 1..Len(dirEntries) : ~HasImageExtension(dirEntries[i]))
        => StoppedOnEmptyInput

\* The early return itself: when the filter of line 333 keeps nothing the run
\* stops.  (Invariant of Spec and of SpecFilter.)
EmptyFilterStopsTheRun ==
    (pc = "eventloop" /\ FilterEntries(dirEntries) = <<>>) => StoppedOnEmptyInput

\* C8: the filter keeps an entry if and only if its name ends with .jpg or
\* .png, compared without case.
C8_FilterKeepsImageExtensions ==
    pc = "eventloop" =>
        /\ \A i \in 1..Len(dirEntries) :
              (dirEntries[i] \in Range(imageFilenames)) <=> HasImageExtension(dirEntries[i])
        /\ imageFilenames = SelectSeq(dirEntries, HasImageExtension)

\* The filter keeps every entry that has an image extension.  (Invariant of
\* SpecFilter.)
FilterKeepsEveryImage ==
    pc = "eventloop" =>
        \A i \in 1..Len(dirEntries) :
            HasImageExtension(dirEntries[i]) => dirEntries[i] \in Range(imageFilenames)

\* The number of decimal digits of n >= 0.
RECURSIVE DigitCount(_)
DigitCount(n) == IF n < 10 THEN 1 ELSE 1 + DigitCount(n \div 10)

IsDigit(c) == \E d \in 1..10 : DigitChar[d] = c

\* The number a string of decimal digits denotes.
RECURSIVE DigitsValue(_)
DigitsValue(s) ==
    IF s = <<>> THEN 0
    ELSE 10 * DigitsValue(SubSeq(s, 1, Len(s) - 1))
         + ((CHOOSE d \in 1..10 : DigitChar[d] = s[Len(s)]) - 1)

\* The characters of the output paths in the order of their code units.
CodeUnitOrder == <<".", "/", "0", "1", "2", "3", "4", "5", "6", "7", "8", "9",
                   "g", "n", "o", "p", "t", "u">>

CodeUnits(s) ==
    [i \in 1..Len(s) |-> CHOOSE k \in 1..Len(CodeUnitOrder) : CodeUnitOrder[k] = s[i]]

\* The files mode has run.
FilesDone == SortHasRun /\ argv.outputFilename = FILES

\* C9: in files mode exactly N files are written; the image at sorted
\* position i goes to ./output/<i + 1, zero-padded to the digits of N>.png;
\* the names are pairwise distinct and their lexicographic order is the sort
\* order; the grid dimensions play no part.
C9_NumberedFiles ==
    FilesDone =>
        LET n == Len(imageFilenames)
        IN  /\ Len(sortedImageArray) = n
            /\ Len(written) = n
            /\ \A i \in 0..(n - 1) :
                  LET path == written[i + 1].path
                      number == SubSeq(path, Len(OutputImageFolder) + 1,
                                       Len(path) - Len(DotPng))
                  IN  /\ written[i + 1].image = sortedImageArray[i + 1]
                      /\ path = OutputImageFolder \o number \o DotPng
                      /\ Len(number) = DigitCount(n)
                      /\ \A k \in 1..Len(number) : IsDigit(number[k])
                      /\ DigitsValue(number) = i + 1
            /\ \A i, j \in 1..n :
                  i < j => /\ written[i].path # written[j].path
                           /\ LexCompare(CodeUnits(written[i].path),
                                         CodeUnits(written[j].path)) < 0

\* Twelve images and a 1x2 grid: all twelve are written, the ninth to
\* ./output/09.png.
C9_Witness ==
    /\ FilesDone
    /\ argv.numRows = 1 /\ argv.numColumns = 2
    /\ Len(written) = 12
    /\ written[9].path = OutputImageFolder \o <<"0", "9">> \o DotPng
    /\ written[12].path = OutputImageFolder \o <<"1", "2">> \o DotPng
    /\ written[12].image = sortedImageArray[12]

\* Exactly one file was written and it is the composed grid.
GridWritten ==
    /\ GridDone
    /\ Len(written) = 1
    /\ written[1].image = gridPromise.value

\* Exactly N files were written, one per sorted image.
FilesWritten ==
    /\ Len(written) = Len(imageFilenames)
    /\ Len(sortedImageArray) = Len(imageFilenames)
    /\ \A i \in 1..Len(written) : written[i].image = sortedImageArray[i]

\* C10: a run with at least one input file, all of which decode, ends having
\* emitted either one composed grid image or N per-image files, for every
\* value of the outputFilename flag.
C10_OutputIsEmitted ==
    (RunOver /\ Len(imageFilenames) >= 1 /\ AllDecode) =>
        (GridWritten \/ FilesWritten)

-----------------------------------------------------------------------------
(* The cell size.                                                          *)

\* The completion barrier has been passed and processImages resolved.
BarrierPassed == processPromise.state = "fulfilled"

\* px is the least side of any input bitmap.
IsLeastSide(px) ==
    /\ \A f \in Range(imageFilenames) : px <= files[f].width /\ px <= files[f].height
    /\ \E f \in Range(imageFilenames) : px = files[f].width \/ px = files[f].height

\* C11: a positive pxPerImage hint is the cell size, whatever the image
\* sizes; without one the cell size is the least of min(width, height) over
\* all records: no larger than any side of any input image and equal to one
\* of them.
C11_CellSize ==
    BarrierPassed =>
        IF cmdline.pxPerImage # undefined /\ cmdline.pxPerImage > 0
        THEN argv.pxPerImage = cmdline.pxPerImage
        ELSE IsLeastSide(argv.pxPerImage)

\* Without a hint, a 3x2 and a 2x3 image with a third side of 3 give the
\* cell size 2, the height of the first.
C11_Witness ==
    /\ BarrierPassed
    /\ cmdline.pxPerImage = undefined
    /\ Len(imageDataArray) = 2
    /\ files[QualifyingName(1)].width = 3 /\ files[QualifyingName(1)].height = 2
    /\ files[QualifyingName(2)].width = 3 /\ files[QualifyingName(2)].height = 3
    /\ argv.pxPerImage = 2
    /\ \A i \in 1..2 : imageDataArray[i].outputImage.width = 2

-----------------------------------------------------------------------------
(* Colour extraction.                                                      *)

\* The record of the only image of the directory and the averaged pixel it
\* was computed from.
TheRecord == imageDataArray[1]
ThePixel == files[TheRecord.imageFilename].avg

Extracted == Len(imageDataArray) = 1 /\ TheRecord.colorInfo # UndefinedObj

\* C12: an achromatic opaque averaged pixel (r = g = b = k, any k in 0..255)
\* gets colorInfo with hue 0 and saturation 0.
C12_AchromaticHueAndSaturation ==
    (Extracted /\ ThePixel[1] = ThePixel[2] /\ ThePixel[2] = ThePixel[3]) =>
        /\ TheRecord.colorInfo.hue = 0
        /\ TheRecord.colorInfo.saturation = 0

\* The same for the grey levels whose hexadecimal form has no leading zero.
\* (Invariant of SpecColor.)
AchromaticFrom16 ==
    (Extracted /\ ThePixel[1] = ThePixel[2] /\ ThePixel[2] = ThePixel[3]
               /\ ThePixel[1] >= 16) =>
        /\ TheRecord.colorInfo.hue = 0
        /\ TheRecord.colorInfo.saturation = 0

\* C14: the {r, g, b} the handler derives from the hex string are the R, G
\* and B channels of the averaged pixel, and the retained colour string is
\* the zero-padded hex of those channels.
C14_HexStringKeepsChannels ==
    Extracted =>
        /\ TheRecord.colorInfo.colorHexString
              = Hex2(ThePixel[1]) \o Hex2(ThePixel[2]) \o Hex2(ThePixel[3])
        /\ ColorHex(TheRecord.colorInfo.colorHexString)
              = [r |-> ThePixel[1], g |-> ThePixel[2], b |-> ThePixel[3]]

\* The same for the pixels whose red channel is at least 16.  (Invariant of
\* SpecColor.)
HexStringKeepsChannelsFrom16 ==
    (Extracted /\ ThePixel[1] >= 16) =>
        /\ TheRecord.colorInfo.colorHexString
              = Hex2(ThePixel[1]) \o Hex2(ThePixel[2]) \o Hex2(ThePixel[3])
        /\ ColorHex(TheRecord.colorInfo.colorHexString)
              = [r |-> ThePixel[1], g |-> ThePixel[2], b |-> ThePixel[3]]

\* hexToHSV has returned from a call on the triple (r, g, b).
Returned(r, g, b) ==
    /\ hsvCall # UndefinedObj
    /\ hsvCall.result # UndefinedObj
    /\ hsvCall.hexRGB = [r |-> r, g |-> g, b |-> b]

\* C13: hexToHSV returns hue 0, saturation 100.0 and value 50.0 for
\* (255, 0, 0), hue 120 for (0, 255, 0) and hue 240 for (0, 0, 255); for every
\* triple with one channel 255 and the other two 0, saturation is 100.0 and
\* value 50.0.  (Saturation and value are in tenths of a percent.)
C13_PrimaryColours ==
    /\ Returned(255, 0, 0) => hsvCall.result = [hue |-> 0, saturation |-> 1000, value |-> 500]
    /\ Returned(0, 255, 0) => hsvCall.result.hue = 120
    /\ Returned(0, 0, 255) => hsvCall.result.hue = 240
    /\ \A r, g, b \in {0, 255} :
          (Returned(r, g, b) /\ r + g + b = 255) =>
              /\ hsvCall.result.saturation = 1000
              /\ hsvCall.result.value = 500

\* hexToHSV has returned from the call on pure green.
C13_Witness ==
    /\ pc = "returned"
    /\ Returned(0, 255, 0)
    /\ hsvCall.result = [hue |-> 120, saturation |-> 1000, value |-> 500]

-----------------------------------------------------------------------------
(* The order of the reads.                                                 *)

\* The record of the file at position i of the filename list has been
\* appended.
Appended(i) ==
    \E k \in 1..Len(imageDataArray) : imageDataArray[k].imageFilename = imageFilenames[i]

\* The read of the file at position i has begun.
Begun(i) == pc = "eventloop" /\ (imageFilenames[i] \in pending \/ Appended(i))

\* C15: files are processed one after another: the step for the file at
\* position N begins only after the record of the file at position N-1 has
\* been appended, so no two files are in flight together and, until the sort
\* reorders them, the records stand in filename-list order.
C15_OneFileAtATime ==
    /\ \A n \in 2..Len(imageFilenames) : Begun(n) => Appended(n - 1)
    /\ Cardinality(pending) <= 1
    /\ ~SortHasRun =>
          \A k \in 1..Len(imageDataArray) :
              imageDataArray[k].imageFilename = imageFilenames[k]

\* The part of C15 that no completion order can break: every record belongs
\* to a different file of the list.  (Invariant of Spec.)
OneRecordPerFile ==
    /\ Len(imageDataArray) <= Len(imageFilenames)
    /\ \A j, k \in 1..Len(imageDataArray) :
          /\ imageDataArray[k].imageFilename \in Range(imageFilenames)
          /\ imageDataArray[j].imageFilename = imageDataArray[k].imageFilename => j = k

-----------------------------------------------------------------------------
(* The completion barrier.                                                 *)

\* The collection holds exactly one record per input filename.
Complete ==
    /\ Len(imageDataArray) = Len(imageFilenames)
    /\ \A i \in 1..Len(imageFilenames) :
          Cardinality({k \in 1..Len(imageDataArray) :
                          imageDataArray[k].imageFilename = imageFilenames[i]}) = 1

\* How often line 215 has run, that is, how often the barrier was passed.
BarrierCount ==
    Cardinality({k \in 1..Len(console) : console[k].text = "Done processing images!"})

\* The cell size has been determined, a record has been normalized, the sort
\* is about to run or has run, or the grid has been composited.
DownstreamStarted ==
    \/ BarrierCount >= 1
    \/ argv.pxPerImage # cmdline.pxPerImage
    \/ \E k \in 1..Len(imageDataArray) : imageDataArray[k].outputImage # UndefinedObj
    \/ processPromise.state = "fulfilled"
    \/ SortIsNext
    \/ SortHasRun
    \/ sortedImageArray # <<>>
    \/ gridPromise # NoPromise

\* C16: in every order of read completions the cell-size determination, the
\* normalization, the sort and the composite start only once the collection
\* holds one record per input filename, and the barrier is passed at most
\* once in a run.
C16_CompletionBarrier ==
    /\ BarrierCount <= 1
    /\ DownstreamStarted => Complete

\* Both files were read, b.JPG first (it leads the stable sort by hue, on
\* which the two tie); the barrier was passed once and the grid has been
\* composited from two images.
C16_Witness ==
    /\ RunOver
    /\ BarrierCount = 1
    /\ Len(imageFilenames) = 2
    /\ GridDone
    /\ Len(sortedImageArray) = 2
    /\ argv.sortParameter = "hue"
    /\ imageDataArray[1].colorInfo.hue = imageDataArray[2].colorInfo.hue
    /\ imageDataArray[1].imageFilename = QualifyingName(2)
    /\ written # <<>>

-----------------------------------------------------------------------------
(* Normalization.                                                          *)

\* The record has its cellSize x cellSize output image.
Normalized(data) ==
    /\ data.outputImage # UndefinedObj
    /\ data.outputImage.width = argv.pxPerImage
    /\ data.outputImage.height = argv.pxPerImage

EveryRecordNormalized ==
    /\ Complete
    /\ \A k \in 1..Len(imageDataArray) : Normalized(imageDataArray[k])

\* The claim of C17 as a state predicate.
NormalizedBeforeTheSort ==
    /\ (SortIsNext \/ SortHasRun) => EveryRecordNormalized
    /\ RunOver => (EveryRecordNormalized /\ SortHasRun)
    /\ argv.sortParameter = "filename" =>
          \A k \in 1..Len(imageDataArray) : imageDataArray[k].colorInfo = UndefinedObj

\* C17: for every sort parameter and visualization mode, when every file
\* decodes, each record has received its cellSize x cellSize output image
\* before the sort runs, and the run gets as far as the sort; sorting by
\* filename skips the colour extraction and the records are normalized all
\* the same.
C17_EveryRecordNormalized ==
    (Len(imageFilenames) >= 1 /\ AllDecode) => NormalizedBeforeTheSort

\* The same outside the combinations of -p filename with a visualization
\* mode other than normal.  (Invariant of Spec.)
NormalizedUnlessFilenameAndMode ==
    (Len(imageFilenames) >= 1 /\ AllDecode
       /\ ~(argv.sortParameter = "filename" /\ argv.visualizationMode # "normal"))
        => NormalizedBeforeTheSort

-----------------------------------------------------------------------------
(* Greyscale.                                                              *)

\* The record was built from the greyscale of its file: its image is grey,
\* its colour information, when there is one, was extracted from the grey
\* image, and so was its output image, when it has one (a copy of the grey
\* image, or the swatch of the grey image's colour).
FromGreyscale(data) ==
    LET grey == Greyscale(JimpRead(files[data.imageFilename]))
    IN  /\ data.image.grey
        /\ data.colorInfo # UndefinedObj =>
               data.colorInfo = ColorInfoOf(Resize(grey, 1, 1))
        /\ data.outputImage # UndefinedObj =>
               IF argv.visualizationMode = "dominant"
               THEN data.outputImage.avg
                       = ParseColor(ColorInfoOf(Resize(grey, 1, 1)).colorHexString)
               ELSE data.outputImage.grey

\* C18: with the greyscale flag set every input image is converted to
\* greyscale before its colour is extracted and before its output image is
\* produced, in every visualization mode and for every sort parameter.
C18_GreyscaleFirst ==
    cmdline.greyscale =>
        \A k \in 1..Len(imageDataArray) : FromGreyscale(imageDataArray[k])

\* The same when the sort parameter is not filename.  (Invariant of Spec.)
GreyscaleFirstUnlessFilename ==
    (cmdline.greyscale /\ cmdline.sortParameter # "filename") =>
        \A k \in 1..Len(imageDataArray) : FromGreyscale(imageDataArray[k])

-----------------------------------------------------------------------------
(* The grid and its cells.                                                 *)

Cells == argv.numRows * argv.numColumns

\* Lines of console.error.
ErrorLines == {k \in 1..Len(console) : console[k].stream = "error"}

\* C19: createOutputGrid composites the first min(N, rows * columns) of the
\* N sorted images and no other; with N < rows * columns the canvas is still
\* resolved and written as the result of the run; with N > rows * columns
\* the images from index rows * columns on are never composited and no error
\* is raised.
C19_FirstImagesComposited ==
    GridDone =>
        LET n == Len(sortedImageArray)
            m == Min2(n, Cells)
        IN  /\ Len(Composites) = m
            /\ \A i \in 0..(m - 1) :
                  Cardinality({k \in 1..Len(Composites) :
                                  /\ Composites[k].index = i
                                  /\ Composites[k].image = sortedImageArray[i + 1]}) = 1
            /\ \A k \in 1..Len(Composites) : Composites[k].index < m
            /\ processPromise.state = "fulfilled"
            /\ RunOver => /\ Len(written) = 1
                          /\ written[1].image = gridPromise.value
            /\ n > Cells => ErrorLines = {}

\* Three images on a 2x2 grid: three composites, the canvas written.
C19_Witness ==
    /\ GridDone
    /\ RunOver
    /\ Len(sortedImageArray) = 3
    /\ argv.numRows = 2 /\ argv.numColumns = 2
    /\ Len(Composites) = 3
    /\ Len(written) = 1

\* Ten images on a 3x3 grid: nine composites, the tenth image left out.
MoreImagesThanCells ==
    /\ GridDone
    /\ Len(sortedImageArray) = 10
    /\ Cells = 9
    /\ Len(Composites) = 9
    /\ \A k \in 1..9 : Composites[k].image # sortedImageArray[10]

\* The block a composite call writes lies inside the canvas and is
\* cellSize x cellSize.
BlockInside(canvas, c) ==
    /\ c.image.width = argv.pxPerImage
    /\ c.image.height = argv.pxPerImage
    /\ 0 <= c.x /\ c.x + c.image.width <= canvas.width
    /\ 0 <= c.y /\ c.y + c.image.height <= canvas.height

\* Two composite calls write blocks that share no pixel.
Disjoint(c, d) ==
    \/ c.x + c.image.width <= d.x
    \/ d.x + d.image.width <= c.x
    \/ c.y + c.image.height <= d.y
    \/ d.y + d.image.height <= c.y

\* C20: the canvas is columns * cellSize wide and rows * cellSize high; every
\* block written lies inside it; no two blocks overlap; each sorted image is
\* written at most once; the canvas is handed to the writer exactly once,
\* after all block writes.
C20_CanvasAndBlocks ==
    /\ ~GridDone => written = <<>>
    /\ GridDone =>
          LET canvas == gridPromise.value
          IN  /\ canvas.width = argv.numColumns * argv.pxPerImage
              /\ canvas.height = argv.numRows * argv.pxPerImage
              /\ \A k \in 1..Len(Composites) : BlockInside(canvas, Composites[k])
              /\ \A j, k \in 1..Len(Composites) :
                    j # k => /\ Disjoint(Composites[j], Composites[k])
                             /\ Composites[j].index # Composites[k].index
              /\ Len(written) <= 1
              /\ RunOver => Len(written) = 1
              /\ written # <<>> =>
                    /\ written[1].image = canvas
                    /\ Len(Composites) = Min2(Len(sortedImageArray), Cells)

\* A grid of 2 rows and 3 columns with cells of 2 pixels: the canvas is 6x4,
\* six blocks were written and the canvas went to the writer.
C20_Witness ==
    /\ GridDone
    /\ RunOver
    /\ argv.numRows = 2 /\ argv.numColumns = 3 /\ argv.pxPerImage = 2
    /\ gridPromise.value.width = 6 /\ gridPromise.value.height = 4
    /\ Len(Composites) = 6
    /\ Len(written) = 1

-----------------------------------------------------------------------------
(* The ranges of the colour information.                                   *)

\* The luma has been added to the result of the call on (r, g, b).
LumaAdded(r, g, b) == pc = "luma" /\ Returned(r, g, b)

\* C21: on every triple of channels in 0..255 hexToHSV divides by no zero
\* and returns an integer hue in 0..360, a saturation in 0..100 and a value
\* in 0..100; the luma lies in 0..255, and is 0 for (0, 0, 0) and 255 for
\* (255, 255, 255).  (Saturation and value are in tenths of a percent, the
\* luma in hundredths.)
C21_ColorInfoRanges ==
    (hsvCall # UndefinedObj) =>
        /\ 0 \notin Divisors(hsvCall.hexRGB)
        /\ hsvCall.result # UndefinedObj =>
              /\ hsvCall.result.hue \in 0..360
              /\ hsvCall.result.saturation \in 0..1000
              /\ hsvCall.result.value \in 0..1000
        /\ pc = "luma" =>
              /\ hsvCall.result.luma \in 0..25500
              /\ LumaAdded(0, 0, 0) => hsvCall.result.luma = 0
              /\ LumaAdded(255, 255, 255) => hsvCall.result.luma = 25500

\* The colour information of white: hue 0 and saturation 0 by the guards on
\* delta, value 100.0, luma 255.
C21_Witness ==
    /\ LumaAdded(255, 255, 255)
    /\ hsvCall.result = [hue |-> 0, saturation |-> 0, value |-> 1000, luma |-> 25500]

\* A red with more blue than green: the hue of -30 degrees is returned as 330.
NegativeHueWrapped ==
    /\ LumaAdded(255, 0, 128)
    /\ hsvCall.result.hue = 330

-----------------------------------------------------------------------------
(* The resolved grid.                                                      *)

\* The hint was given as a positive integer (not absent, not 0).
PositiveHint(hint) == hint # undefined /\ hint > 0

\* What the composite step does with n images on the resolved grid.
CompositedOnResolvedGrid(n) ==
    createOutputGrid([argv EXCEPT !.pxPerImage = 1], [i \in 1..n |-> i])

\* C22: for every numImages >= 1 and hints that are absent, zero or
\* positive, setNumRowsAndNumCols leaves rows >= 1 and columns >= 1; when at
\* most one hint is positive, rows * columns >= numImages, so the composite
\* step drops no image.
C22_GridHoldsEveryImage ==
    (pc = "eventloop" /\ Len(imageFilenames) >= 1) =>
        /\ argv.numRows >= 1
        /\ argv.numColumns >= 1
        /\ ~(PositiveHint(cmdline.numRows) /\ PositiveHint(cmdline.numColumns)) =>
              /\ argv.numRows * argv.numColumns >= Len(imageFilenames)
              /\ Len(CompositedOnResolvedGrid(Len(imageFilenames)).composites)
                    = Len(imageFilenames)

\* Five images, --numRows 0 and --numColumns 2: the zero counts as absent
\* and the grid is 3 rows by 2 columns.
C22_Witness ==
    /\ pc = "eventloop"
    /\ Len(imageFilenames) = 5
    /\ cmdline.numRows = 0 /\ cmdline.numColumns = 2
    /\ argv.numRows = 3 /\ argv.numColumns = 2
    /\ Len(CompositedOnResolvedGrid(5).composites) = 5

\* With both hints positive the grid can be too small: five images on the
\* 2x2 grid the hints ask for.
BothHintsCanDropImages ==
    /\ pc = "eventloop"
    /\ Len(imageFilenames) = 5
    /\ argv.numRows = 2 /\ argv.numColumns = 2
    /\ Len(CompositedOnResolvedGrid(5).composites) = 4

====
